---- MODULE Spec2Model ----
(***************************************************************************)
(* A model of the books REST API: the in-memory record store books_db with *)
(* its id counter NEXT_ID (app/api/routes/books.py), the four handlers of  *)
(* the /books router, the pydantic schemas that validate their payloads,   *)
(* and the logging set-up that app/main.py runs at import                  *)
(* (app/utils/logger.py).                                                  *)
(*                                                                         *)
(* Python values are tagged records [t |-> type, v |-> value]; None is     *)
(* [t |-> "none"].  A str is a sequence of characters, each character a    *)
(* one-character string.  A dict (a book, a payload) is a record whose     *)
(* DOMAIN is the set of its keys.                                          *)
(***************************************************************************)
EXTENDS Integers, Sequences, FiniteSets, TLC

VARIABLES books_db, NEXT_ID, clock, env, phase, root_level, root_handlers, last

vars == <<books_db, NEXT_ID, clock, env, phase, root_level, root_handlers, last>>

-----------------------------------------------------------------------------
(* Python values *)

None == [t |-> "none"]

PyStr(s) == [t |-> "str", v |-> s]

PyInt(n) == [t |-> "int", v |-> n]

PyBool(b) == [t |-> "bool", v |-> b]

PyTime(n) == [t |-> "datetime", v |-> n]

PyList(l) == [t |-> "list", v |-> l]

PyDict(d) == [t |-> "dict", v |-> d]

IsNumber(a) == a.t \in {"int", "bool"}

NumberOf(a) == IF a.t = "bool" THEN (IF a.v THEN 1 ELSE 0) ELSE a.v

\* Python's ==: numbers (bool is an int) compare by value, values of one type
\* by value, values of unrelated types are unequal.
PyEq(a, b) ==
    IF IsNumber(a) /\ IsNumber(b) THEN NumberOf(a) = NumberOf(b)
    ELSE IF a.t # b.t THEN FALSE
    ELSE IF a.t = "none" THEN TRUE
    ELSE a.v = b.v

\* Python's truth value of an object (the operand of `if x:` and `not x`).
Truthy(a) ==
    CASE a.t = "none" -> FALSE
      [] a.t = "bool" -> a.v
      [] a.t = "int" -> a.v # 0
      [] a.t = "str" -> Len(a.v) > 0
      [] a.t = "list" -> Len(a.v) > 0
      [] a.t = "dict" -> DOMAIN a.v # {}
      [] OTHER -> TRUE

-----------------------------------------------------------------------------
(* str operations *)

UpperCase == <<"A", "B", "C", "D", "E", "F", "G", "H", "I", "J", "K", "L", "M",
               "N", "O", "P", "Q", "R", "S", "T", "U", "V", "W", "X", "Y", "Z",
               "À", "É">>

LowerCase == <<"a", "b", "c", "d", "e", "f", "g", "h", "i", "j", "k", "l", "m",
               "n", "o", "p", "q", "r", "s", "t", "u", "v", "w", "x", "y", "z",
               "à", "é">>

lower_char(c) ==
    IF \E i \in DOMAIN UpperCase : UpperCase[i] = c
    THEN LowerCase[CHOOSE i \in DOMAIN UpperCase : UpperCase[i] = c]
    ELSE c

\* str.lower()
lower(s) == [i \in DOMAIN s |-> lower_char(s[i])]

\* `needle in hay` for two str: needle occurs at some offset of hay.
str_in(needle, hay) ==
    \E off \in 0..(Len(hay) - Len(needle)) :
        \A i \in 1..Len(needle) : hay[off + i] = needle[i]

Digits == {"0", "1", "2", "3", "4", "5", "6", "7", "8", "9"}

\* the pattern ^[\d-]+$ : one or more characters, each a digit or a hyphen.
matches_isbn_pattern(s) ==
    /\ Len(s) >= 1
    /\ \A i \in DOMAIN s : s[i] \in Digits \cup {"-"}

\* The str of n characters c.
Repeat(c, n) == [i \in 1..n |-> c]

-----------------------------------------------------------------------------
(* Schema constants *)

TITLE_MAX_LENGTH == 200

AUTHOR_MAX_LENGTH == 100

YEAR_MIN == 1000

\* datetime.now().year, read once when the schema classes are defined.
CURRENT_YEAR == 2026

HTTP_200_OK == 200

HTTP_201_CREATED == 201

HTTP_400_BAD_REQUEST == 400

HTTP_404_NOT_FOUND == 404

\* FastAPI's answer when a declared body fails its schema.
HTTP_422_UNPROCESSABLE == 422

\* FastAPI's answer when a returned value fails the route's response_model.
HTTP_500_RESPONSE_INVALID == 500

-----------------------------------------------------------------------------
(* The seed store *)

SEED_CREATED_AT == PyTime(0)

Isbn1 == <<"9", "7", "8", "-", "0", "4", "5", "1", "5", "2", "4", "9", "3", "5">>

Isbn2 == <<"9", "7", "8", "-", "2", "0", "7", "0", "6", "1", "2", "7", "5", "8">>

Isbn3 == <<"9", "7", "8", "-", "2", "0", "7", "0", "5", "8", "4", "6", "2", "8">>

Isbn4 == <<"9", "7", "8", "-", "2", "0", "7", "0", "4", "0", "9", "2", "2", "8">>

Rowling == <<"J", ".", "K", ".", " ", "R", "o", "w", "l", "i", "n", "g">>

SeedBooks ==
    << [id |-> PyInt(1),
        title |-> PyStr(<<"1", "9", "8", "4">>),
        author |-> PyStr(<<"G", "e", "o", "r", "g", "e", " ", "O", "r", "w", "e", "l", "l">>),
        isbn |-> PyStr(Isbn1),
        published_year |-> PyInt(1949),
        available |-> PyBool(TRUE),
        created_at |-> SEED_CREATED_AT],
       [id |-> PyInt(2),
        title |-> PyStr(<<"L", "e", " ", "P", "e", "t", "i", "t", " ", "P", "r", "i", "n", "c", "e">>),
        author |-> PyStr(<<"A", "n", "t", "o", "i", "n", "e", " ", "d", "e", " ", "S", "a", "i",
                           "n", "t", "-", "E", "x", "u", "p", "é", "r", "y">>),
        isbn |-> PyStr(Isbn2),
        published_year |-> PyInt(1943),
        available |-> PyBool(TRUE),
        created_at |-> SEED_CREATED_AT],
       [id |-> PyInt(3),
        title |-> PyStr(<<"H", "a", "r", "r", "y", " ", "P", "o", "t", "t", "e", "r", " ", "à",
                          " ", "l", "'", "é", "c", "o", "l", "e", " ", "d", "e", "s", " ", "s",
                          "o", "r", "c", "i", "e", "r", "s">>),
        author |-> PyStr(Rowling),
        isbn |-> PyStr(Isbn3),
        published_year |-> PyInt(1997),
        available |-> PyBool(FALSE),
        created_at |-> SEED_CREATED_AT],
       [id |-> PyInt(4),
        title |-> PyStr(<<"L", "e", "s", " ", "M", "i", "s", "é", "r", "a", "b", "l", "e", "s">>),
        author |-> PyStr(<<"V", "i", "c", "t", "o", "r", " ", "H", "u", "g", "o">>),
        isbn |-> PyStr(Isbn4),
        published_year |-> PyInt(1862),
        available |-> PyBool(TRUE),
        created_at |-> SEED_CREATED_AT] >>

NEXT_ID_INITIAL == 5

-----------------------------------------------------------------------------
(* dict operations *)

\* {**a, **b} and a.update(b): the keys of both, b's value where both have one.
dict_update(a, b) ==
    [k \in (DOMAIN a) \cup (DOMAIN b) |-> IF k \in DOMAIN b THEN b[k] ELSE a[k]]

Min(S) == CHOOSE x \in S : \A y \in S : x <= y

-----------------------------------------------------------------------------
(* The pydantic schemas.  A payload is the JSON object of the request body: *)
(* a dict from the keys it holds to their values (null is None).            *)

valid_str(v, min_length, max_length) ==
    /\ v.t = "str"
    /\ Len(v.v) >= min_length
    /\ Len(v.v) <= max_length

valid_title(v) == valid_str(v, 1, TITLE_MAX_LENGTH)

valid_author(v) == valid_str(v, 1, AUTHOR_MAX_LENGTH)

valid_isbn(v) == v.t = "str" /\ matches_isbn_pattern(v.v)

valid_published_year(v) == v.t = "int" /\ v.v >= YEAR_MIN /\ v.v <= CURRENT_YEAR

valid_available(v) == v.t = "bool"

BookBaseFields == {"title", "author", "isbn", "published_year"}

BookUpdateFields == BookBaseFields \cup {"available"}

field_ok(f, v) ==
    CASE f = "title" -> valid_title(v)
      [] f = "author" -> valid_author(v)
      [] f = "isbn" -> valid_isbn(v)
      [] f = "published_year" -> valid_published_year(v)
      [] f = "available" -> valid_available(v)

\* BookCreate: every field of BookBase is required and must meet its constraint.
BookCreate_errors(payload) ==
    {f \in BookBaseFields : ~(f \in DOMAIN payload /\ field_ok(f, payload[f]))}

\* BookUpdate: every field is Optional with default None; a field that is
\* present and not null must meet its constraint.
BookUpdate_errors(payload) ==
    {f \in BookUpdateFields \cap DOMAIN payload :
        payload[f] # None /\ ~field_ok(f, payload[f])}

\* book.model_dump() of a validated BookCreate.
BookCreate_model_dump(payload) == [f \in BookBaseFields |-> payload[f]]

\* book_update.model_dump(exclude_unset=True): the fields the payload set,
\* those set to null included.
BookUpdate_model_dump(payload) ==
    [f \in BookUpdateFields \cap DOMAIN payload |-> payload[f]]

BookFields == BookUpdateFields \cup {"id", "created_at"}

\* Book, the response_model of the routes that return a book.
Book_valid(book) ==
    /\ BookFields \subseteq DOMAIN book
    /\ book.id.t = "int"
    /\ \A f \in BookUpdateFields : field_ok(f, book[f])
    /\ book.created_at.t = "datetime"

-----------------------------------------------------------------------------
(* Look-ups.  They return the index in books_db of the book found, 0 for    *)
(* None.                                                                    *)

find_book_by_id_matching(book_id) ==
    LET hits == {i \in DOMAIN books_db : PyEq(books_db[i].id, PyInt(book_id))}
    IN  IF hits = {} THEN 0 ELSE Min(hits)

\* The loop compares book["id"] with books_db, the list, not with book_id.
find_book_by_id(book_id) ==
    LET hits == {i \in DOMAIN books_db : PyEq(books_db[i].id, PyList(books_db))}
    IN  IF hits = {} THEN 0 ELSE Min(hits)

find_book_by_isbn_none(book_isbn) == 0

\* The loop left after its first iteration.
find_book_by_isbn_first_only(book_isbn) ==
    IF Len(books_db) > 0 /\ PyEq(books_db[1].isbn, book_isbn) THEN 1 ELSE 0

find_book_by_isbn(book_isbn) ==
    LET hits == {i \in DOMAIN books_db : PyEq(books_db[i].isbn, book_isbn)}
    IN  IF hits = {} THEN 0 ELSE Min(hits)

-----------------------------------------------------------------------------
(* Responses.  last is the last request handled and the response to it.     *)

NoRequest == [op |-> "none", req |-> None, status |-> 0, body |-> None, detail |-> None]

Response(op, req, status, body, detail) ==
    [op |-> op, req |-> req, status |-> status, body |-> body, detail |-> detail]

\* raise HTTPException(status_code, detail)
HTTPException(op, req, status, detail) == Response(op, req, status, None, detail)

\* A body that fails its schema never reaches the handler.
RequestValidationError(op, req, errors) ==
    Response(op, req, HTTP_422_UNPROCESSABLE, None, [msg |-> "validation", fields |-> errors])

\* A returned book is serialised through response_model=Book.
ReturnBook(op, req, status, book) ==
    IF Book_valid(book)
    THEN Response(op, req, status, PyDict(book), None)
    ELSE Response(op, req, HTTP_500_RESPONSE_INVALID, None, [msg |-> "response_validation"])

\* A returned list is serialised through response_model=List[Book].
ReturnBooks(op, req, status, books) ==
    IF \A i \in DOMAIN books : Book_valid(books[i])
    THEN Response(op, req, status, PyList(books), None)
    ELSE Response(op, req, HTTP_500_RESPONSE_INVALID, None, [msg |-> "response_validation"])

-----------------------------------------------------------------------------
(* Logging set-up, run once when app.main is imported *)

EnvUnset == "<unset>"

\* os.getenv("ENV", "development")
getenv_ENV == IF env = EnvUnset THEN "development" ELSE env

Unbound == "<unbound>"

\* The local `level` after the if/else: the else branch holds the annotation
\* `level : logging.INFO`, which binds nothing.
level_local(type_env) == IF type_env = "development" THEN "DEBUG" ELSE Unbound

formatter(type_env) == IF type_env = "development" THEN "dev_format" ELSE "prod_format"

\* Python's root logger before any configuration.
ROOT_LEVEL_DEFAULT == "WARNING"

setup_logging ==
    /\ phase = "import"
    /\ LET type_env == getenv_ENV
           level == level_local(type_env)
       IN  IF level = Unbound
           THEN \* root_logger.setLevel(level) raises UnboundLocalError
                /\ phase' = "import_failed"
                /\ UNCHANGED <<root_level, root_handlers>>
           ELSE /\ root_level' = level
                /\ root_handlers' = <<[level |-> level, formatter |-> formatter(type_env)]>>
                /\ phase' = "serving"
    /\ UNCHANGED <<books_db, NEXT_ID, clock, env, last>>

-----------------------------------------------------------------------------
(* The handlers of the /books router *)

available_matches(available, book) == PyEq(book.available, available)

author_matches_case_sensitive(author, book) == str_in(author.v, book.author.v)

\* author.lower() in book["author"].lower()
author_matches(author, book) == str_in(lower(author.v), lower(book.author.v))

\* GET /books/
get_all_books(available, author) ==
    /\ phase = "serving"
    /\ LET req == [available |-> available, author |-> author]
           result0 == books_db
           result1 == IF available # None
                      THEN SelectSeq(result0, LAMBDA book : available_matches(available, book))
                      ELSE result0
           result2 == IF Truthy(author)
                      THEN SelectSeq(result1, LAMBDA book : author_matches(author, book))
                      ELSE result1
       IN  last' = ReturnBooks("get_all_books", req, HTTP_200_OK, result2)
    /\ UNCHANGED <<books_db, NEXT_ID, clock, env, phase, root_level, root_handlers>>

\* GET /books/{book_id}
get_book(book_id) ==
    /\ phase = "serving"
    /\ LET req == [book_id |-> book_id]
           book == find_book_by_id(book_id)
       IN  IF book = 0
           THEN last' = HTTPException("get_book", req, HTTP_404_NOT_FOUND,
                                      [msg |-> "id_does_not_exist", id |-> book_id])
           ELSE last' = ReturnBook("get_book", req, HTTP_200_OK, books_db[book])
    /\ UNCHANGED <<books_db, NEXT_ID, clock, env, phase, root_level, root_handlers>>

\* NEXT_ID += 1
next_id_same(n) == n

next_id_after(n) == n + 1

\* The dict create_book builds for a validated payload.
new_book(book, now) ==
    dict_update(dict_update([id |-> PyInt(NEXT_ID)], BookCreate_model_dump(book)),
                [available |-> PyBool(TRUE), created_at |-> PyTime(now)])

\* POST /books/
create_book(payload) ==
    /\ phase = "serving"
    /\ LET req == [payload |-> payload]
           now == clock
           errors == BookCreate_errors(payload)
       IN  IF errors # {}
           THEN /\ last' = RequestValidationError("create_book", req, errors)
                /\ UNCHANGED <<books_db, NEXT_ID, clock>>
           ELSE LET existing_book == find_book_by_isbn(payload.isbn)
                IN  IF existing_book # 0
                    THEN /\ last' = HTTPException("create_book", req, HTTP_400_BAD_REQUEST,
                                        [msg |-> "isbn_already_exists",
                                         isbn |-> payload.isbn,
                                         id |-> books_db[existing_book].id])
                         /\ UNCHANGED <<books_db, NEXT_ID, clock>>
                    ELSE /\ books_db' = Append(books_db, new_book(payload, now))
                         /\ NEXT_ID' = next_id_after(NEXT_ID)
                         /\ clock' = clock + 1
                         /\ last' = ReturnBook("create_book", req, HTTP_201_CREATED,
                                               new_book(payload, now))
    /\ UNCHANGED <<env, phase, root_level, root_handlers>>

\* update_book with the id looked up before the body is validated.
update_book_lookup_first(book_id, payload) ==
    /\ phase = "serving"
    /\ LET req == [book_id |-> book_id, payload |-> payload]
           errors == BookUpdate_errors(payload)
           book == find_book_by_id(book_id)
           update_data == BookUpdate_model_dump(payload)
           existing_book == find_book_by_isbn(update_data.isbn)
       IN  IF book = 0
           THEN /\ last' = HTTPException("update_book", req, HTTP_404_NOT_FOUND,
                                         [msg |-> "id_does_not_exist", id |-> book_id])
                /\ UNCHANGED books_db
           ELSE IF errors # {}
           THEN /\ last' = RequestValidationError("update_book", req, errors)
                /\ UNCHANGED books_db
           ELSE IF /\ "isbn" \in DOMAIN update_data
                   /\ existing_book # 0
                   /\ ~PyEq(books_db[existing_book].id, PyInt(book_id))
           THEN /\ last' = HTTPException("update_book", req, HTTP_400_BAD_REQUEST,
                                         [msg |-> "isbn_used_by_another_book",
                                          isbn |-> update_data.isbn])
                /\ UNCHANGED books_db
           ELSE /\ books_db' = [books_db EXCEPT ![book] = dict_update(@, update_data)]
                /\ last' = ReturnBook("update_book", req, HTTP_200_OK,
                                      dict_update(books_db[book], update_data))
    /\ UNCHANGED <<NEXT_ID, clock, env, phase, root_level, root_handlers>>

\* PUT /books/{book_id}.  The body is declared as a BookUpdate, so FastAPI
\* validates it before it calls the function.
update_book(book_id, payload) ==
    /\ phase = "serving"
    /\ LET req == [book_id |-> book_id, payload |-> payload]
           errors == BookUpdate_errors(payload)
           book == find_book_by_id(book_id)
           update_data == BookUpdate_model_dump(payload)
           existing_book == find_book_by_isbn(update_data.isbn)
       IN  IF errors # {}
           THEN /\ last' = RequestValidationError("update_book", req, errors)
                /\ UNCHANGED books_db
           ELSE IF book = 0
           THEN /\ last' = HTTPException("update_book", req, HTTP_404_NOT_FOUND,
                                         [msg |-> "id_does_not_exist", id |-> book_id])
                /\ UNCHANGED books_db
           ELSE IF /\ "isbn" \in DOMAIN update_data
                   /\ existing_book # 0
                   /\ ~PyEq(books_db[existing_book].id, PyInt(book_id))
           THEN /\ last' = HTTPException("update_book", req, HTTP_400_BAD_REQUEST,
                                         [msg |-> "isbn_used_by_another_book",
                                          isbn |-> update_data.isbn])
                /\ UNCHANGED books_db
           ELSE /\ books_db' = [books_db EXCEPT ![book] = dict_update(@, update_data)]
                /\ last' = ReturnBook("update_book", req, HTTP_200_OK,
                                      dict_update(books_db[book], update_data))
    /\ UNCHANGED <<NEXT_ID, clock, env, phase, root_level, root_handlers>>

-----------------------------------------------------------------------------------------------------------------------------------------------------
(* Bounds and the inputs of the requests.  A payload field holds a value of *)
(* the JSON type its schema declares, or null, or is absent.                *)

\* The number of books created on top of the seed store.
MaxCreates == 2

\* The number of ISBNs that no seed book holds.
MaxNewIsbns == 2

Envs == {EnvUnset, "development", "production"}

DigitChar == <<"1", "2", "3", "4", "5", "6", "7", "8", "9">>

NewIsbn(k) == <<"9", "7", "8", "-">> \o <<DigitChar[k]>>

NewIsbns == {NewIsbn(k) : k \in 1..MaxNewIsbns}

Dune == <<"D", "u", "n", "e">>

Herbert == <<"F", "r", "a", "n", "k", " ", "H", "e", "r", "b", "e", "r", "t">>

BasePayload(isbn) ==
    [title |-> PyStr(Dune), author |-> PyStr(Herbert),
     isbn |-> PyStr(isbn), published_year |-> PyInt(1965)]

\* Every field on the edge of its constraint.
EdgePayload(isbn) ==
    [title |-> PyStr(Repeat("x", TITLE_MAX_LENGTH)),
     author |-> PyStr(Repeat("R", AUTHOR_MAX_LENGTH)),
     isbn |-> PyStr(isbn), published_year |-> PyInt(CURRENT_YEAR)]

BadValues(f) ==
    CASE f = "title" -> {PyStr(<<>>), PyStr(Repeat("x", TITLE_MAX_LENGTH + 1))}
      [] f = "author" -> {PyStr(<<>>), PyStr(Repeat("x", AUTHOR_MAX_LENGTH + 1))}
      [] f = "isbn" -> {PyStr(<<>>), PyStr(<<"9", "7", "a", "8">>)}
      [] f = "published_year" -> {PyInt(YEAR_MIN - 1), PyInt(CURRENT_YEAR + 1)}

Without(d, f) == [k \in (DOMAIN d) \ {f} |-> d[k]]

EmptyPayload == [k \in {} |-> None]

CreatePayloads ==
    {BasePayload(isbn) : isbn \in NewIsbns \cup {Isbn1, Isbn3}}
    \cup {EdgePayload(NewIsbn(1))}
    \cup {Without(BasePayload(NewIsbn(1)), f) : f \in BookBaseFields}
    \cup UNION {{dict_update(BasePayload(NewIsbn(1)), f :> v) : v \in BadValues(f)} :
                   f \in BookBaseFields}
    \cup {dict_update(BasePayload(NewIsbn(1)), [title |-> None])}

UpdatePayloads ==
    {EmptyPayload,
     [title |-> PyStr(Dune)],
     [title |-> PyStr(<<>>)],
     [title |-> None],
     [author |-> PyStr(Repeat("x", AUTHOR_MAX_LENGTH + 1))],
     [isbn |-> PyStr(NewIsbn(1))],
     [isbn |-> PyStr(Isbn1)],
     [isbn |-> PyStr(<<"9", "7", "a", "8">>)],
     [isbn |-> None],
     [published_year |-> PyInt(YEAR_MIN - 1)],
     [published_year |-> None],
     [available |-> PyBool(FALSE)],
     [available |-> None],
     [available |-> PyBool(FALSE), title |-> PyStr(Dune)],
     [isbn |-> PyStr(Isbn1), title |-> PyStr(<<>>)]}

BookIds == {2, NEXT_ID_INITIAL, 999}

AvailableFilters == {None, PyBool(TRUE), PyBool(FALSE)}

AuthorFilters ==
    {None, PyStr(<<>>), PyStr(Rowling),
     PyStr(<<"r", "o", "w", "l", "i", "n", "g">>),
     PyStr(<<"z", "z">>)}

\* Whether create_book would append for this payload.
Creates(payload) ==
    /\ BookCreate_errors(payload) = {}
    /\ find_book_by_isbn(payload.isbn) = 0

-----------------------------------------------------------------------------
(* The specification *)

Init ==
    /\ books_db = SeedBooks
    /\ NEXT_ID = NEXT_ID_INITIAL
    /\ clock = 1
    /\ env \in Envs
    /\ phase = "import"
    /\ root_level = ROOT_LEVEL_DEFAULT
    /\ root_handlers = <<>>
    /\ last = NoRequest

Next ==
    \/ setup_logging
    \/ \E available \in AvailableFilters, author \in AuthorFilters :
          get_all_books(available, author)
    \/ \E book_id \in BookIds : get_book(book_id)
    \/ \E payload \in CreatePayloads :
          /\ Creates(payload) => Len(books_db) < Len(SeedBooks) + MaxCreates
          /\ create_book(payload)
    \/ \E book_id \in BookIds, payload \in UpdatePayloads :
          update_book(book_id, payload)

Spec == Init /\ [][Next]_vars

-----------------------------------------------------------------------------
(* Properties *)

\* The index in db of the record whose id is n, 0 when there is none.
IndexOfId(db, n) ==
    IF \E i \in DOMAIN db : db[i].id = PyInt(n)
    THEN CHOOSE i \in DOMAIN db : db[i].id = PyInt(n)
    ELSE 0

\* The indices in db of the records that hold isbn.
HoldersOf(db, isbn) == {i \in DOMAIN db : db[i].isbn = isbn}

StoreUnchanged ==
    /\ books_db' = books_db
    /\ NEXT_ID' = NEXT_ID

\* C1: no two records of the store have the same isbn.
C1_IsbnUnique ==
    \A i, j \in DOMAIN books_db :
        i # j => books_db[i].isbn # books_db[j].isbn

\* A book was created, and the last request tried to give book 2 the isbn of
\* book 1.
C1_Witness ==
    /\ Len(books_db) > Len(SeedBooks)
    /\ last.op = "update_book"
    /\ last.req = [book_id |-> 2, payload |-> [isbn |-> PyStr(Isbn1)]]

\* C2: get_book answers 200 with the record of the requested id when the
\* store holds one, and 404 exactly when it holds none.
C2_GetBookReturnsRecord ==
    last.op = "get_book" =>
        LET i == IndexOfId(books_db, last.req.book_id)
        IN  IF i # 0
            THEN last.status = HTTP_200_OK /\ last.body = PyDict(books_db[i])
            ELSE last.status = HTTP_404_NOT_FOUND

\* C3: update_book of an existing id with a valid payload whose isbn no other
\* record holds answers 200 with the merged record, and changes that record
\* only.
C3_UpdateMerges ==
    [][LET p == last'.req.payload
           i == IndexOfId(books_db, last'.req.book_id)
           merged == [f \in DOMAIN books_db[i] |->
                         IF f \in DOMAIN p THEN p[f] ELSE books_db[i][f]]
       IN  (/\ last'.op = "update_book"
            /\ i # 0
            /\ BookUpdate_errors(p) = {}
            /\ "isbn" \in DOMAIN p => HoldersOf(books_db, p.isbn) \subseteq {i})
           => /\ last'.status = HTTP_200_OK
              /\ last'.body = PyDict(merged)
              /\ books_db' = [books_db EXCEPT ![i] = merged]
              /\ NEXT_ID' = NEXT_ID]_vars

\* C4: create_book with a valid payload whose isbn a record holds answers 400
\* and leaves the records and the id counter as they were.
C4_DuplicateCreateRejected ==
    [][LET p == last'.req.payload
       IN  (/\ last'.op = "create_book"
            /\ BookCreate_errors(p) = {}
            /\ HoldersOf(books_db, p.isbn) # {})
           => /\ last'.status = HTTP_400_BAD_REQUEST
              /\ StoreUnchanged]_vars

\* The last request was refused for the isbn of seed book 3, after a book was
\* created.
C4_Witness ==
    /\ last.op = "create_book"
    /\ last.status = HTTP_400_BAD_REQUEST
    /\ last.req.payload.isbn = PyStr(Isbn3)
    /\ Len(books_db) > Len(SeedBooks)

\* C5: a created book's id is greater than every id the store held or gave
\* out before; the records keep their ids, and no two have the same id.
C5_IdsIncrease ==
    [][/\ Len(books_db') >= Len(books_db)
       /\ \A i \in DOMAIN books_db : books_db'[i].id = books_db[i].id
       /\ \A k \in (DOMAIN books_db') \ (DOMAIN books_db) :
             /\ \A i \in DOMAIN books_db : books_db'[k].id.v > books_db[i].id.v
             /\ books_db'[k].id.v >= NEXT_ID
             /\ books_db'[k].id.v < NEXT_ID'
       /\ NEXT_ID' >= NEXT_ID
       /\ \A i, j \in DOMAIN books_db' :
             i # j => books_db'[i].id # books_db'[j].id]_vars

\* Two books were created, with a refused create in the end.
C5_Witness ==
    /\ Len(books_db) = Len(SeedBooks) + 2
    /\ books_db[Len(books_db)].id.v > books_db[Len(books_db) - 1].id.v
    /\ last.op = "create_book"
    /\ last.status = HTTP_422_UNPROCESSABLE

\* s occurs in h as a slice.
IsSlice(s, h) ==
    \E i \in 1..(Len(h) - Len(s) + 1) : SubSeq(h, i, i + Len(s) - 1) = s

\* The answer to the last request, a get_all_books, is 200 with, in store
\* order, the records that meet every filter given.
ListAnswer ==
    LET available == last.req.available
        author == last.req.author
        wanted(book) ==
            /\ available # None => book.available = available
            /\ author # None => IsSlice(lower(author.v), lower(book.author.v))
    IN  last.op = "get_all_books"
        => /\ last.status = HTTP_200_OK
           /\ last.body = PyList(SelectSeq(books_db, wanted))

\* C6: get_all_books leaves the store as it was, and answers 200 with, in
\* store order, the records that meet every filter given.
C6_ListFilters ==
    /\ [][last'.op = "get_all_books" => StoreUnchanged]_vars
    /\ []ListAnswer

\* Both filters given, the author in lower case: only book 3 is returned.
C6_Witness ==
    /\ last.op = "get_all_books"
    /\ last.req = [available |-> PyBool(FALSE),
                   author |-> PyStr(<<"r", "o", "w", "l", "i", "n", "g">>)]
    /\ Len(last.body.v) = 1
    /\ last.body.v[1].id = PyInt(3)
    /\ Len(books_db) > Len(SeedBooks)

\* C7: every record of the store meets the field constraints.
C7_FieldConstraintsAtRest ==
    \A i \in DOMAIN books_db :
        LET book == books_db[i]
        IN  /\ book.title.t = "str"
            /\ Len(book.title.v) \in 1..TITLE_MAX_LENGTH
            /\ book.author.t = "str"
            /\ Len(book.author.v) \in 1..AUTHOR_MAX_LENGTH
            /\ book.isbn.t = "str"
            /\ Len(book.isbn.v) >= 1
            /\ \A k \in DOMAIN book.isbn.v : book.isbn.v[k] \in Digits \cup {"-"}
            /\ book.published_year.t = "int"
            /\ book.published_year.v \in YEAR_MIN..CURRENT_YEAR
            /\ book.available.t = "bool"

\* A book was created with every field on the edge of its constraint, and
\* the last request was an update of book 2 with a null title.
C7_Witness ==
    /\ \E i \in DOMAIN books_db : Len(books_db[i].title.v) = TITLE_MAX_LENGTH
    /\ last.op = "update_book"
    /\ last.req = [book_id |-> 2, payload |-> [title |-> None]]

\* C8: a duplicate isbn on create_book, and an isbn another record holds on
\* update_book of an existing id, are answered 400 with a detail that names
\* the id of the record that holds the isbn.
C8_ConflictNamesId ==
    [][LET p == last'.req.payload
           NamesHolder(holders) ==
               /\ last'.status = HTTP_400_BAD_REQUEST
               /\ "id" \in DOMAIN last'.detail
               /\ \E i \in holders : last'.detail.id = books_db[i].id
       IN  /\ (/\ last'.op = "create_book"
               /\ BookCreate_errors(p) = {}
               /\ HoldersOf(books_db, p.isbn) # {})
              => NamesHolder(HoldersOf(books_db, p.isbn))
           /\ (/\ last'.op = "update_book"
               /\ BookUpdate_errors(p) = {}
               /\ IndexOfId(books_db, last'.req.book_id) # 0
               /\ "isbn" \in DOMAIN p
               /\ HoldersOf(books_db, p.isbn)
                     \ {IndexOfId(books_db, last'.req.book_id)} # {})
              => NamesHolder(HoldersOf(books_db, p.isbn)
                                \ {IndexOfId(books_db, last'.req.book_id)})]_vars

\* A supplied field that breaks its constraint.
Violates(p) ==
    \/ "title" \in DOMAIN p /\ p.title # None
          /\ Len(p.title.v) \notin 1..TITLE_MAX_LENGTH
    \/ "author" \in DOMAIN p /\ p.author # None
          /\ Len(p.author.v) \notin 1..AUTHOR_MAX_LENGTH
    \/ "isbn" \in DOMAIN p /\ p.isbn # None
          /\ (p.isbn.v = <<>> \/ \E k \in DOMAIN p.isbn.v : p.isbn.v[k] \notin Digits \cup {"-"})
    \/ "published_year" \in DOMAIN p /\ p.published_year # None
          /\ p.published_year.v \notin YEAR_MIN..CURRENT_YEAR

\* C9 as stated: update_book of an id no record has answers 404 whatever the
\* payload.
C9_NotFoundWhateverPayload ==
    (last.op = "update_book" /\ IndexOfId(books_db, last.req.book_id) = 0)
        => last.status = HTTP_404_NOT_FOUND

\* C9, amended: update_book of an id no record has answers 422 when a supplied
\* field breaks its constraint and 404 otherwise, and leaves the store as it
\* was.
C9_ValidationBeforeLookup ==
    [][(last'.op = "update_book" /\ IndexOfId(books_db, last'.req.book_id) = 0)
          => /\ last'.status = IF Violates(last'.req.payload)
                               THEN HTTP_422_UNPROCESSABLE
                               ELSE HTTP_404_NOT_FOUND
             /\ StoreUnchanged]_vars

\* An update of id 999 with an empty title was answered 422.
C9_Witness ==
    /\ last.op = "update_book"
    /\ last.req = [book_id |-> 999, payload |-> [title |-> PyStr(<<>>)]]
    /\ last.status = HTTP_422_UNPROCESSABLE

\* C10: setup_logging completes for every value of ENV and leaves the root
\* logger with one handler at the root level, DEBUG in development, INFO
\* otherwise.
C10_SetupLoggingCompletes ==
    phase # "import" =>
        /\ phase = "serving"
        /\ Len(root_handlers) = 1
        /\ root_handlers[1].level = root_level
        /\ root_level = IF env \in {EnvUnset, "development"} THEN "DEBUG" ELSE "INFO"

====
